---- MODULE Spec2Model ----
(***************************************************************************)
(* The container lifecycle runs of docker_agent_demo.py, main() and the    *)
(* demos it drives, and of test_network.py's container test, executing     *)
(* against one container engine.                                           *)
(*                                                                         *)
(* A process is one call of main() (the script, sys.exit(main())), of one  *)
(* of the two lifecycle demos of the module, or of the test.  The engine   *)
(* is the                                                                  *)
(* Docker daemon the code talks to: its images and its containers.  Every  *)
(* engine call, probe and shell command is one step that either succeeds   *)
(* or raises; a raise takes the branch the code's try/except takes.        *)
(***************************************************************************)
EXTENDS Integers, Sequences, FiniteSets, TLC

\* Process slots, and how many calls are made in all.
NProcs == 2
MaxInvocations == 2

Procs == 1..NProcs

VARIABLES
    pc,                 \* pc[p]: the statement process p is at
    entry,              \* entry[p]: what p's caller called: main() or one demo
    exitCode,           \* exitCode[p]: main()'s return value, -1 before it returns
    out,                \* out[p]: the status lines process p has printed
    container,          \* container[p]: the demo's local `container` (0: unbound)
    status,             \* status[p]: container.status, as cached by the last reload
    cleanup_container,  \* cleanup_container[p]: the local of the except block
    pending,            \* pending[p]: the exception in flight as the with block exits
    images,             \* engine: the image tags present
    containers,         \* engine: every container ever created, by id
    started,            \* how many executions of the script were started
    runId,              \* runId[p]: which execution process p is (history)
    failedAt,           \* failedAt[p][d]: the step whose raise ended demo d (history)
    cleanupErr,         \* cleanupErr[p]: what the bare except swallowed (history)
    issued,             \* issued[p]: the stop and remove calls p has made (history)
    lastOp              \* the last engine call made on a container (history)

vars == <<pc, entry, exitCode, out, container, status, cleanup_container, pending, images,
          containers, started, runId, failedAt, cleanupErr, issued, lastOp>>

locals == <<container, status, cleanup_container, pending>>
engine == <<images, containers>>
history == <<failedAt, cleanupErr, issued, lastOp>>
calls == <<started, runId, entry>>

-----------------------------------------------------------------------------
(* Names the code uses *)

NginxImage == "nginx:alpine"
AlpineImage == "alpine:latest"
DemoImage == "agent-demo:latest"
NginxName == "agent-demo-nginx"
WorkerName == "agent-demo-worker"

Demos == {"lib", "mgmt"}
DemoName(d) == IF d = "lib" THEN NginxName ELSE WorkerName

\* The order of a container's statuses.
Rank(s) ==
    CASE s = "created" -> 1
      [] s = "running" -> 2
      [] s = "exited"  -> 3
      [] s = "removed" -> 4
      [] OTHER -> 0

NoOp == [run |-> 0, demo |-> "none", op |-> "none", cid |-> 0,
         before |-> "none", after |-> "none", err |-> "none"]

-----------------------------------------------------------------------------
(* The engine: what each call answers, given the engine's state.  Each     *)
(* operator is the set of the call's possible outcomes.                    *)

Ids == DOMAIN containers
Live(c) == containers[c].status # "removed"
\* A container run without name= gets a name of its own from the engine.
Anonymous == ""
NameInUse(n) == n # Anonymous /\ \E c \in Ids : Live(c) /\ containers[c].name = n

NewContainer(image, name, auto, st, owner) ==
    [name |-> name, image |-> image, autoRemove |-> auto, status |-> st,
     owner |-> owner]

\* client.containers.run(image, name=..., detach=True, remove=auto): the
\* library pulls a missing image, creates the container, then starts it.
ContainersRun(image, name, auto, owner) ==
    LET unavailable == {[err |-> "APIError", id |-> 0, imgs |-> images, cs |-> containers]}
        create(imgs) ==
            IF NameInUse(name)
            THEN {[err |-> "NameConflict", id |-> 0, imgs |-> imgs, cs |-> containers]}
            ELSE LET id == Len(containers) + 1
                 IN  {[err |-> "APIError", id |-> 0, imgs |-> imgs,
                       cs |-> Append(containers, NewContainer(image, name, auto, "created", owner))],
                      [err |-> "none", id |-> id, imgs |-> imgs,
                       cs |-> Append(containers, NewContainer(image, name, auto, "running", owner))]}
    IN  unavailable \cup
        IF image \in images
        THEN create(images)
        ELSE {[err |-> "ImageNotFound", id |-> 0, imgs |-> images, cs |-> containers]}
             \cup create(images \cup {image})

\* container.reload() / container.logs(): read-only calls on a container.
EngineInspect(cid) ==
    IF ~Live(cid)
    THEN {[err |-> "NotFound", cs |-> containers]}
    ELSE {[err |-> "APIError", cs |-> containers], [err |-> "none", cs |-> containers]}

\* container.stop(): a running container exits; one that is not running is
\* left as it is and the call succeeds (the engine's "not modified").
EngineStop(cid) ==
    IF ~Live(cid)
    THEN {[err |-> "NotFound", cs |-> containers]}
    ELSE {[err |-> "APIError", cs |-> containers],
          [err |-> "none",
           cs |-> IF containers[cid].status = "running"
                  THEN [containers EXCEPT ![cid].status = "exited"]
                  ELSE containers]}

\* container.remove(force=...): a running container is removed only by force.
EngineRemove(cid, force) ==
    IF ~Live(cid)
    THEN {[err |-> "NotFound", cs |-> containers]}
    ELSE {[err |-> "APIError", cs |-> containers]} \cup
         IF containers[cid].status = "running" /\ ~force
         THEN {}
         ELSE {[err |-> "none", cs |-> [containers EXCEPT ![cid].status = "removed"]]}

\* client.containers.get(name)
EngineGet(name) ==
    IF ~NameInUse(name)
    THEN {[err |-> "NotFound", id |-> 0]}
    ELSE {[err |-> "APIError", id |-> 0]} \cup
         {[err |-> "none", id |-> c] : c \in {c \in Ids : Live(c) /\ containers[c].name = name}}

-----------------------------------------------------------------------------
(* Bookkeeping shared by the steps *)

Goto(p, l) == pc' = [pc EXCEPT ![p] = l]
Say(p, msg) == out' = [out EXCEPT ![p] = @ \cup {msg}]

\* The record of an engine call on container cid.
Op(p, d, op, cid, o) ==
    [run |-> runId[p], demo |-> d, op |-> op, cid |-> cid,
     before |-> containers[cid].status, after |-> o.cs[cid].status, err |-> o.err]

\* A stop or remove call is made on container cid; `changed` tells whether
\* the call changed the container's status.
Issue(p, d, op, cid, o) ==
    issued' = [issued EXCEPT ![p] = @ \cup
                 {[demo |-> d, op |-> op, cid |-> cid,
                   changed |-> o.cs[cid].status # containers[cid].status]}]

\* The stops and removes that p's calls performed on the engine.
Acted(p) == {i \in issued[p] : i.changed}

\* What demo d of process p printed as its result.
Outcome(p, d) ==
    IF <<d, "ok", "none">> \in out[p] THEN "ok"
    ELSE IF \E m \in out[p] : m[1] = d /\ m[2] = "failed"
         THEN (CHOOSE m \in out[p] : m[1] = d /\ m[2] = "failed")[3]
         ELSE "none"

\* The function returns: its locals are gone.
DropLocals(p) ==
    /\ container' = [container EXCEPT ![p] = 0]
    /\ status' = [status EXCEPT ![p] = "none"]
    /\ cleanup_container' = [cleanup_container EXCEPT ![p] = 0]
    /\ pending' = [pending EXCEPT ![p] = "none"]

\* main()'s except: any exception that reaches it is printed, and main()
\* returns 1.
MainFail(p, e) ==
    /\ Goto(p, "returned")
    /\ exitCode' = [exitCode EXCEPT ![p] = 1]
    /\ Say(p, <<"main", "failed", e>>)
    /\ DropLocals(p)

\* An exception leaves a demo: to main()'s except, or to the demo's caller.
Raise(p, e) ==
    IF entry[p] = "main"
    THEN MainFail(p, e)
    ELSE /\ Goto(p, "returned")
         /\ DropLocals(p)
         /\ UNCHANGED <<exitCode, out>>

-----------------------------------------------------------------------------
Init ==
    /\ pc = [p \in Procs |-> "off"]
    /\ entry = [p \in Procs |-> "main"]
    /\ exitCode = [p \in Procs |-> -1]
    /\ out = [p \in Procs |-> {}]
    /\ container = [p \in Procs |-> 0]
    /\ status = [p \in Procs |-> "none"]
    /\ cleanup_container = [p \in Procs |-> 0]
    /\ pending = [p \in Procs |-> "none"]
    /\ images \in SUBSET {AlpineImage, NginxImage}
    /\ containers = <<>>
    /\ started = 0
    /\ runId = [p \in Procs |-> 0]
    /\ failedAt = [p \in Procs |-> [d \in Demos |-> "none"]]
    /\ cleanupErr = [p \in Procs |-> "none"]
    /\ issued = [p \in Procs |-> {}]
    /\ lastOp = NoOp

Idle(p) == pc[p] \in {"off", "returned"}

Entries == {"main", "test"} \cup Demos
FirstStep(e) ==
    CASE e = "main" -> "main_info"
      [] e = "lib"  -> "lib_connect"
      [] e = "mgmt" -> "mgmt_env"
      [] e = "test" -> "test_ping"

\* A call may begin in slot p: the lowest free slot, while calls are left.
MayStart(p) ==
    /\ Idle(p)
    /\ \A q \in Procs : q < p => ~Idle(q)
    /\ started < MaxInvocations

\* The containers the engine still holds.  A removed container can only be
\* named through a handle, and handles are locals of the calls.
Present(cs) == SelectSeq(cs, LAMBDA c : c.status # "removed")

\* A call made when no other call is in progress: of main() (sys.exit(main())),
\* of one demo, or of the test.  What the calls before it left in the engine
\* is what it finds; their output and their handles are gone.
Launch(p, e) ==
    /\ \A q \in Procs : Idle(q)
    /\ MayStart(p)
    /\ started' = started + 1
    /\ runId' = [q \in Procs |-> IF q = p THEN started + 1 ELSE 0]
    /\ pc' = [q \in Procs |-> IF q = p THEN FirstStep(e) ELSE "off"]
    /\ entry' = [q \in Procs |-> IF q = p THEN e ELSE "main"]
    /\ exitCode' = [q \in Procs |-> -1]
    /\ out' = [q \in Procs |-> {}]
    /\ failedAt' = [q \in Procs |-> [d \in Demos |-> "none"]]
    /\ cleanupErr' = [q \in Procs |-> "none"]
    /\ issued' = [q \in Procs |-> {}]
    /\ lastOp' = NoOp
    /\ containers' = Present(containers)
    /\ UNCHANGED <<locals, images>>

\* A call begins in slot p beside the calls in progress.
Start(p, e) ==
    /\ MayStart(p)
    /\ started' = started + 1
    /\ runId' = [runId EXCEPT ![p] = started + 1]
    /\ Goto(p, FirstStep(e))
    /\ entry' = [entry EXCEPT ![p] = e]
    /\ exitCode' = [exitCode EXCEPT ![p] = -1]
    /\ out' = [out EXCEPT ![p] = {}]
    /\ failedAt' = [failedAt EXCEPT ![p] = [d \in Demos |-> "none"]]
    /\ cleanupErr' = [cleanupErr EXCEPT ![p] = "none"]
    /\ issued' = [issued EXCEPT ![p] = {}]
    /\ UNCHANGED <<locals, engine, lastOp>>

\* A lifecycle demo called while other lifecycle demos are in progress.
LaunchConcurrent(p, d) ==
    /\ \E q \in Procs : ~Idle(q)
    /\ \A q \in Procs : ~Idle(q) => entry[q] \in Demos
    /\ Start(p, d)

-----------------------------------------------------------------------------
(* main() and demo_docker_cli_commands(): the shell commands, in order.    *)

CliSteps == <<"main_info", "cli_version", "cli_ps", "cli_images", "cli_pull",
              "cli_run", "cli_net">>
CliIndex(l) == CHOOSE i \in 1..Len(CliSteps) : CliSteps[i] = l
AfterCli(l) ==
    IF CliIndex(l) = Len(CliSteps) THEN "lib_connect" ELSE CliSteps[CliIndex(l) + 1]

\* run_command(cmd) with check=True: a failing command raises, up to main().
\* The two "docker run --rm" commands run unnamed containers in the
\* foreground, which the engine removes as the command ends.
RunCommand(p) ==
    /\ pc[p] \in {CliSteps[i] : i \in 1..Len(CliSteps)}
    /\ \/ /\ Goto(p, AfterCli(pc[p]))
          /\ images' = IF pc[p] = "cli_pull" THEN images \cup {AlpineImage} ELSE images
          /\ UNCHANGED <<exitCode, out, locals>>
       \/ /\ MainFail(p, "CalledProcessError")
          /\ UNCHANGED images
    /\ UNCHANGED <<containers, calls, history>>

-----------------------------------------------------------------------------
(* demo_python_docker_library() *)

\* The function returns: to main(), which calls the next demo, or to its caller.
LibReturn(p) ==
    /\ Goto(p, IF entry[p] = "main" THEN "mgmt_env" ELSE "returned")
    /\ DropLocals(p)

\* The record of containers.run: the container it made, if it made one.
RunOp(p, d, o) ==
    [run |-> runId[p], demo |-> d, op |-> "run",
     cid |-> IF Len(o.cs) > Len(containers) THEN Len(o.cs) ELSE 0,
     before |-> "none",
     after |-> IF Len(o.cs) > Len(containers) THEN o.cs[Len(o.cs)].status ELSE "none",
     err |-> o.err]

\* except Exception as e: print the failure; the function then returns.
LibFail(p, step, e) ==
    /\ Say(p, <<"lib", "failed", e>>)
    /\ failedAt' = [failedAt EXCEPT ![p]["lib"] = step]
    /\ LibReturn(p)

\* docker.from_env(); client.info()  -- on failure: print and return.
LibConnect(p) ==
    /\ pc[p] = "lib_connect"
    /\ \/ /\ Goto(p, "lib_list")
          /\ UNCHANGED out
          /\ UNCHANGED locals
       \/ /\ Say(p, <<"lib", "connect_failed", "APIError">>)
          /\ LibReturn(p)
    /\ UNCHANGED <<exitCode, engine, calls, history>>

\* client.images.list(): outside any try, a raise goes up to main().
LibList(p) ==
    /\ pc[p] = "lib_list"
    /\ \/ /\ Goto(p, "lib_pull")
          /\ UNCHANGED <<exitCode, out, locals>>
       \/ Raise(p, "APIError")
    /\ UNCHANGED <<engine, calls, history>>

\* client.images.pull("nginx:alpine") in its own try: a failure prints a
\* warning, which is no result line of the demo, and the demo goes on.
LibPull(p) ==
    /\ pc[p] = "lib_pull"
    /\ \/ images' = images \cup {NginxImage}
       \/ UNCHANGED images
    /\ Goto(p, "lib_run")
    /\ UNCHANGED <<exitCode, out, locals, containers, calls, history>>

\* container = client.containers.run("nginx:alpine", name=..., detach=True, remove=True)
LibRun(p) ==
    /\ pc[p] = "lib_run"
    /\ \E o \in ContainersRun(NginxImage, NginxName, TRUE, runId[p]) :
          /\ images' = o.imgs
          /\ containers' = o.cs
          /\ lastOp' = RunOp(p, "lib", o)
          /\ IF o.err = "none"
             THEN /\ container' = [container EXCEPT ![p] = o.id]
                  /\ status' = [status EXCEPT ![p] = "created"]
                  /\ Goto(p, "lib_reload")
                  /\ UNCHANGED <<out, failedAt, cleanup_container, pending>>
             ELSE LibFail(p, "run", o.err)
    /\ UNCHANGED <<exitCode, calls, cleanupErr, issued>>

\* port_info = container.ports.get('80/tcp'): the engine publishes the port of
\* a running container only.
PortInfo(st) == st = "running"

\* time.sleep(2); container.reload(); if port_info: ...
LibReload(p) ==
    /\ pc[p] = "lib_reload"
    /\ \E o \in EngineInspect(container[p]) :
          /\ lastOp' = Op(p, "lib", "reload", container[p], o)
          /\ IF o.err = "none"
             THEN /\ status' = [status EXCEPT ![p] = containers[container[p]].status]
                  /\ Goto(p, IF PortInfo(containers[container[p]].status)
                             THEN "lib_probe" ELSE "lib_stop")
                  /\ UNCHANGED <<out, failedAt, container, cleanup_container, pending>>
             ELSE LibFail(p, "reload", o.err)
    /\ UNCHANGED <<exitCode, engine, calls, cleanupErr, issued>>

\* response = httpx.get(f"http://localhost:{host_port}", timeout=5.0): the
\* request succeeds or raises; `caught` tells whether the try around it
\* catches the exception, printing it and going on to the stop.
ProbeStep(p, caught) ==
    /\ pc[p] = "lib_probe"
    /\ \/ /\ Say(p, <<"lib", "probe", "ok">>)
          /\ Goto(p, "lib_stop")
          /\ UNCHANGED <<locals, failedAt>>
       \/ IF caught
          THEN /\ Say(p, <<"lib", "probe", "error">>)
               /\ Goto(p, "lib_stop")
               /\ UNCHANGED <<locals, failedAt>>
          ELSE LibFail(p, "probe", "ConnectError")
    /\ UNCHANGED <<exitCode, engine, calls, cleanupErr, issued, lastOp>>

\* A faulty variant: the probe's exception is not caught where it is raised.
LibProbeUncaught(p) == ProbeStep(p, FALSE)

\* try: httpx.get(...) except Exception as e: print(...)
LibProbe(p) == ProbeStep(p, TRUE)

\* container.stop(); print("Container stopped and removed")
LibStop(p) ==
    /\ pc[p] = "lib_stop"
    /\ \E o \in EngineStop(container[p]) :
          /\ containers' = o.cs
          /\ lastOp' = Op(p, "lib", "stop", container[p], o)
          /\ Issue(p, "lib", "stop", container[p], o)
          /\ IF o.err = "none"
             THEN /\ Say(p, <<"lib", "ok", "none">>)
                  /\ LibReturn(p)
                  /\ UNCHANGED failedAt
             ELSE LibFail(p, "stop", o.err)
    /\ UNCHANGED <<exitCode, images, calls, cleanupErr>>

-----------------------------------------------------------------------------
(* demo_container_management() *)

\* except Exception as e: print the failure, then go on to the cleanup.
MgmtFail(p, step, e) ==
    /\ Say(p, <<"mgmt", "failed", e>>)
    /\ failedAt' = [failedAt EXCEPT ![p]["mgmt"] = step]
    /\ Goto(p, "mgmt_cleanup_get")

\* client = docker.from_env(): outside the try, a raise goes up to main().
MgmtEnv(p) ==
    /\ pc[p] = "mgmt_env"
    /\ \/ /\ Goto(p, "mgmt_run")
          /\ UNCHANGED <<exitCode, out, locals>>
       \/ Raise(p, "DockerException")
    /\ UNCHANGED <<engine, calls, history>>

\* container = client.containers.run("alpine:latest", command=..., name=..., detach=True)
MgmtRun(p) ==
    /\ pc[p] = "mgmt_run"
    /\ \E o \in ContainersRun(AlpineImage, WorkerName, FALSE, runId[p]) :
          /\ images' = o.imgs
          /\ containers' = o.cs
          /\ lastOp' = RunOp(p, "mgmt", o)
          /\ IF o.err = "none"
             THEN /\ container' = [container EXCEPT ![p] = o.id]
                  /\ status' = [status EXCEPT ![p] = "created"]
                  /\ Goto(p, "mgmt_logs")
                  /\ UNCHANGED <<out, failedAt>>
             ELSE /\ MgmtFail(p, "run", o.err)
                  /\ UNCHANGED <<container, status>>
    /\ UNCHANGED <<exitCode, cleanup_container, pending, calls, cleanupErr, issued>>

\* time.sleep(8); container.logs(tail=3)
MgmtLogs(p) ==
    /\ pc[p] = "mgmt_logs"
    /\ \E o \in EngineInspect(container[p]) :
          /\ lastOp' = Op(p, "mgmt", "logs", container[p], o)
          /\ IF o.err = "none"
             THEN /\ Goto(p, "mgmt_reload")
                  /\ UNCHANGED <<out, failedAt>>
             ELSE MgmtFail(p, "logs", o.err)
    /\ UNCHANGED <<exitCode, locals, engine, calls, cleanupErr, issued>>

\* container.reload(); print(container.status); then the statement at `next`.
ReloadThen(p, next) ==
    /\ pc[p] = "mgmt_reload"
    /\ \E o \in EngineInspect(container[p]) :
          /\ lastOp' = Op(p, "mgmt", "reload", container[p], o)
          /\ IF o.err = "none"
             THEN /\ status' = [status EXCEPT ![p] = containers[container[p]].status]
                  /\ Goto(p, next)
                  /\ UNCHANGED <<out, failedAt>>
             ELSE /\ MgmtFail(p, "reload", o.err)
                  /\ UNCHANGED status
    /\ UNCHANGED <<exitCode, container, cleanup_container, pending, engine, calls,
                   cleanupErr, issued>>

\* A faulty variant: the stop is left out, the remove follows the reload.
MgmtReloadThenRemove(p) == ReloadThen(p, "mgmt_remove")

\* container.reload() is followed by container.stop().
MgmtReload(p) == ReloadThen(p, "mgmt_stop")

\* container.stop()
MgmtStop(p) ==
    /\ pc[p] = "mgmt_stop"
    /\ \E o \in EngineStop(container[p]) :
          /\ containers' = o.cs
          /\ lastOp' = Op(p, "mgmt", "stop", container[p], o)
          /\ Issue(p, "mgmt", "stop", container[p], o)
          /\ IF o.err = "none"
             THEN /\ Goto(p, "mgmt_remove")
                  /\ UNCHANGED <<out, failedAt>>
             ELSE MgmtFail(p, "stop", o.err)
    /\ UNCHANGED <<exitCode, locals, images, calls, cleanupErr>>

\* The function returns: to main(), which calls the next demo, or to its caller.
MgmtReturn(p) ==
    /\ Goto(p, IF entry[p] = "main" THEN "img_env" ELSE "returned")
    /\ DropLocals(p)

\* container.remove(); print("Container lifecycle completed")
MgmtRemove(p) ==
    /\ pc[p] = "mgmt_remove"
    /\ \E o \in EngineRemove(container[p], FALSE) :
          /\ containers' = o.cs
          /\ lastOp' = Op(p, "mgmt", "remove", container[p], o)
          /\ Issue(p, "mgmt", "remove", container[p], o)
          /\ IF o.err = "none"
             THEN /\ Say(p, <<"mgmt", "ok", "none">>)
                  /\ MgmtReturn(p)
                  /\ UNCHANGED failedAt
             ELSE /\ MgmtFail(p, "remove", o.err)
                  /\ UNCHANGED locals
    /\ UNCHANGED <<exitCode, images, calls, cleanupErr>>

\* cleanup_container = client.containers.get(name), inside try: ... except: pass
CleanupGet(p, name) ==
    /\ pc[p] = "mgmt_cleanup_get"
    /\ \E o \in EngineGet(name) :
          IF o.err = "none"
          THEN /\ cleanup_container' = [cleanup_container EXCEPT ![p] = o.id]
               /\ Goto(p, "mgmt_cleanup_remove")
               /\ UNCHANGED <<container, status, pending, cleanupErr>>
          ELSE /\ cleanupErr' = [cleanupErr EXCEPT ![p] = o.err]
               /\ MgmtReturn(p)
    /\ UNCHANGED <<exitCode, out, engine, calls, failedAt, issued, lastOp>>

\* A faulty variant: the cleanup looks up the other demo's container name.
MgmtCleanupGetOtherName(p) == CleanupGet(p, NginxName)

\* The cleanup looks the container up by the name the demo gave it.
MgmtCleanupGet(p) == CleanupGet(p, WorkerName)

\* cleanup_container.remove(force=True); print("Cleanup completed"), inside
\* try: ... except: pass
MgmtCleanupRemove(p) ==
    /\ pc[p] = "mgmt_cleanup_remove"
    /\ \E o \in EngineRemove(cleanup_container[p], TRUE) :
          /\ containers' = o.cs
          /\ lastOp' = Op(p, "mgmt", "remove_force", cleanup_container[p], o)
          /\ Issue(p, "mgmt", "remove_force", cleanup_container[p], o)
          /\ IF o.err = "none"
             THEN /\ Say(p, <<"mgmt", "cleanup_completed", "none">>)
                  /\ UNCHANGED cleanupErr
             ELSE /\ cleanupErr' = [cleanupErr EXCEPT ![p] = o.err]
                  /\ UNCHANGED out
    /\ MgmtReturn(p)
    /\ UNCHANGED <<exitCode, images, calls, failedAt>>

-----------------------------------------------------------------------------
(* demo_image_operations() and the end of main() *)

\* except Exception as e: print the failure; the function returns to main().
ImgFail(p, e) ==
    /\ Say(p, <<"img", "failed", e>>)
    /\ Goto(p, "main_done")

\* client = docker.from_env(): outside the try, a raise goes up to main().
ImgEnv(p) ==
    /\ pc[p] = "img_env"
    /\ \/ /\ Goto(p, "img_build")
          /\ UNCHANGED <<exitCode, out, locals>>
       \/ Raise(p, "DockerException")
    /\ UNCHANGED <<engine, calls, history>>

\* temp_dockerfile.write_text(...); client.images.build(..., tag="agent-demo:latest")
ImgBuild(p) ==
    /\ pc[p] = "img_build"
    /\ \/ /\ images' = images \cup {DemoImage}
          /\ Goto(p, "img_run")
          /\ UNCHANGED out
       \/ /\ ImgFail(p, "BuildError")
          /\ UNCHANGED images
    /\ UNCHANGED <<exitCode, locals, containers, calls, history>>

\* client.containers.run("agent-demo:latest", remove=True): a foreground run
\* of an unnamed container, which the library removes before it returns.
ImgRun(p) ==
    /\ pc[p] = "img_run"
    /\ \/ /\ Goto(p, "img_remove")
          /\ UNCHANGED out
       \/ ImgFail(p, "ContainerError")
    /\ UNCHANGED <<exitCode, locals, engine, calls, history>>

\* client.images.remove("agent-demo:latest", force=True); temp_dockerfile.unlink()
ImgRemove(p) ==
    /\ pc[p] = "img_remove"
    /\ \/ /\ images' = images \ {DemoImage}
          /\ Say(p, <<"img", "ok", "none">>)
          /\ Goto(p, "main_done")
       \/ /\ ImgFail(p, "APIError")
          /\ UNCHANGED images
    /\ UNCHANGED <<exitCode, locals, containers, calls, history>>

\* print("ALL DOCKER AGENT DEMOS COMPLETED SUCCESSFULLY!"); return 0
MainDone(p) ==
    /\ pc[p] = "main_done"
    /\ Goto(p, "returned")
    /\ exitCode' = [exitCode EXCEPT ![p] = 0]
    /\ Say(p, <<"main", "ok", "none">>)
    /\ UNCHANGED <<locals, engine, calls, history>>

-----------------------------------------------------------------------------
(* test_network.py: test_testcontainers_network_call() *)

\* except Exception as e: print("Container setup failed"); the test returns.
TestFail(p, e) ==
    /\ Say(p, <<"test", "failed", e>>)
    /\ Goto(p, "returned")
    /\ DropLocals(p)

\* docker.from_env(); client.ping() -- on failure: print and return.
TestPing(p) ==
    /\ pc[p] = "test_ping"
    /\ \/ /\ Goto(p, "test_enter")
          /\ UNCHANGED out
       \/ /\ Say(p, <<"test", "docker_unavailable", "APIError">>)
          /\ Goto(p, "returned")
    /\ UNCHANGED <<exitCode, locals, engine, calls, history>>

\* with DockerContainer("nginx:alpine") as container: entering the block runs
\* the container, detached and without a name.
TestEnter(p) ==
    /\ pc[p] = "test_enter"
    /\ \E o \in ContainersRun(NginxImage, Anonymous, FALSE, runId[p]) :
          /\ images' = o.imgs
          /\ containers' = o.cs
          /\ lastOp' = RunOp(p, "test", o)
          /\ IF o.err = "none"
             THEN /\ container' = [container EXCEPT ![p] = o.id]
                  /\ status' = [status EXCEPT ![p] = "created"]
                  /\ Goto(p, "test_probe")
                  /\ UNCHANGED <<out, cleanup_container, pending>>
             ELSE TestFail(p, o.err)
    /\ UNCHANGED <<exitCode, calls, failedAt, cleanupErr, issued>>

\* The inner try: with an address, httpx.get(url, timeout=3.0) and the assert
\* on its status; every exception is caught and printed there.
TestProbe(p) ==
    /\ pc[p] = "test_probe"
    /\ \E r \in {"no_address", "ok", "error"} : Say(p, <<"test", "probe", r>>)
    /\ Goto(p, "test_reload")
    /\ UNCHANGED <<exitCode, locals, engine, calls, history>>

\* container._container.reload(); assert status == "running": a raise leaves
\* the with block, which exits with the exception in flight.
TestReload(p) ==
    /\ pc[p] = "test_reload"
    /\ \E o \in EngineInspect(container[p]) :
          /\ lastOp' = Op(p, "test", "reload", container[p], o)
          /\ IF o.err = "none"
             THEN /\ status' = [status EXCEPT ![p] = containers[container[p]].status]
                  /\ pending' = [pending EXCEPT ![p] =
                        IF containers[container[p]].status = "running"
                        THEN "none" ELSE "AssertionError"]
             ELSE /\ pending' = [pending EXCEPT ![p] = o.err]
                  /\ UNCHANGED status
    /\ Goto(p, "test_exit")
    /\ UNCHANGED <<exitCode, out, container, cleanup_container, engine, calls,
                   failedAt, cleanupErr, issued>>

\* Leaving the with block stops the container: DockerContainer.stop() removes
\* it by force.  An exception of the removal, or else the one in flight,
\* reaches the outer except.
TestExit(p) ==
    /\ pc[p] = "test_exit"
    /\ \E o \in EngineRemove(container[p], TRUE) :
          /\ containers' = o.cs
          /\ lastOp' = Op(p, "test", "remove_force", container[p], o)
          /\ Issue(p, "test", "remove_force", container[p], o)
          /\ IF o.err # "none"
             THEN TestFail(p, o.err)
             ELSE IF pending[p] # "none"
                  THEN TestFail(p, pending[p])
                  ELSE /\ Say(p, <<"test", "ok", "none">>)
                       /\ Goto(p, "returned")
                       /\ DropLocals(p)
    /\ UNCHANGED <<exitCode, images, calls, failedAt, cleanupErr>>

-----------------------------------------------------------------------------
(* The engine on its own *)

\* A running container's process ends by itself.
ContainerExits(c) ==
    /\ containers[c].status = "running"
    /\ containers' = [containers EXCEPT ![c].status = "exited"]
    /\ UNCHANGED <<pc, exitCode, out, locals, images, calls, history>>

\* The engine removes an exited container that was run with remove=True.
AutoRemove(c) ==
    /\ containers[c].status = "exited"
    /\ containers[c].autoRemove
    /\ containers' = [containers EXCEPT ![c].status = "removed"]
    /\ UNCHANGED <<pc, exitCode, out, locals, images, calls, history>>

-----------------------------------------------------------------------------
Step(p) ==
    \/ RunCommand(p)
    \/ LibConnect(p) \/ LibList(p) \/ LibPull(p) \/ LibRun(p) \/ LibReload(p)
    \/ LibProbe(p) \/ LibStop(p)
    \/ MgmtEnv(p) \/ MgmtRun(p) \/ MgmtLogs(p) \/ MgmtReload(p) \/ MgmtStop(p)
    \/ MgmtRemove(p) \/ MgmtCleanupGet(p) \/ MgmtCleanupRemove(p)
    \/ ImgEnv(p) \/ ImgBuild(p) \/ ImgRun(p) \/ ImgRemove(p) \/ MainDone(p)
    \/ TestPing(p) \/ TestEnter(p) \/ TestProbe(p) \/ TestReload(p) \/ TestExit(p)

Next ==
    \/ \E p \in Procs, e \in Entries : Launch(p, e)
    \/ \E p \in Procs : Step(p)
    \/ \E c \in DOMAIN containers : ContainerExits(c)
    \/ \E c \in DOMAIN containers : AutoRemove(c)

NextConc ==
    \/ Next
    \/ \E p \in Procs, d \in Demos : LaunchConcurrent(p, d)

\* One call at a time.
Spec == Init /\ [][Next]_vars

\* Lifecycle demos may be called while other lifecycle demos are in progress.
SpecConc == Init /\ [][NextConc]_vars

-----------------------------------------------------------------------------
(* What the properties below speak of *)

LibSteps == {"lib_connect", "lib_list", "lib_pull", "lib_run", "lib_reload",
             "lib_probe", "lib_stop"}
MgmtSteps == {"mgmt_env", "mgmt_run", "mgmt_logs", "mgmt_reload", "mgmt_stop",
              "mgmt_remove", "mgmt_cleanup_get", "mgmt_cleanup_remove"}
StepsOf(d) == IF d = "lib" THEN LibSteps ELSE MgmtSteps

\* Lifecycle run d of process p has printed its result and returned.
Concluded(p, d) == Outcome(p, d) # "none" /\ pc[p] \notin StepsOf(d)

\* The containers that lifecycle run d of process p created.
Own(p, d) ==
    {c \in Ids : containers[c].owner = runId[p] /\ containers[c].name = DemoName(d)}

\* The steps of a run that come after its container was created.
AfterCreation == {"reload", "logs", "stop", "remove"}

\* Run d of process p attempted a cleanup of its container after its failure:
\* only the management demo's except block has one.
CleanupTried(p, d) ==
    /\ d = "mgmt"
    /\ \/ cleanupErr[p] # "none"
       \/ <<"mgmt", "cleanup_completed", "none">> \in out[p]

\* An engine call that stops or removes.
Teardown == {"stop", "remove", "remove_force"}

\* The process that made the last engine call, while that call of the demo or
\* of main() is still the process's latest.
Caller == {p \in Procs : runId[p] = lastOp.run /\ pc[p] # "off"}

-----------------------------------------------------------------------------
(* C1: once a lifecycle run has concluded, with success or failure, every  *)
(* container it created has status removed.                                *)
C1_NoContainerLeft ==
    \A p \in Procs, d \in Demos :
        Concluded(p, d) => \A c \in Own(p, d) : containers[c].status = "removed"

(* C2: when a step fails after the container was created, the run has      *)
(* attempted to stop and remove the container by the time it concludes,    *)
(* and the error it reports is the error of the failed step.               *)
C2_CleanupOnFailure ==
    \A p \in Procs, d \in Demos :
        (Concluded(p, d) /\ failedAt[p][d] \in AfterCreation)
            => /\ CleanupTried(p, d)
               /\ Outcome(p, d) \notin {"ok", "none"}

(* C3: main() returns 0 only when every lifecycle run it drove succeeded   *)
(* in full: creation, start, probe, stop and remove.                       *)
C3_ExitZeroOnlyOnSuccess ==
    \A p \in Procs :
        (entry[p] = "main" /\ exitCode[p] = 0)
            => /\ Outcome(p, "lib") = "ok"
               /\ Outcome(p, "mgmt") = "ok"
               /\ <<"lib", "probe", "error">> \notin out[p]

(* C4: an error of the cleanup that follows a primary failure appears in   *)
(* the run's report as a secondary diagnostic.                             *)
C4_CleanupErrorReported ==
    \A p \in Procs :
        (Concluded(p, "mgmt") /\ cleanupErr[p] \notin {"none", "NotFound"})
            => /\ Outcome(p, "mgmt") \notin {"ok", "none"}
               /\ <<"mgmt", "cleanup_error", cleanupErr[p]>> \in out[p]

(* C5: whatever the probe's outcome, the run goes on to its teardown: in   *)
(* the library demo the step after the probe is the stop call on the       *)
(* run's container, in the test the probe is followed by the reload and    *)
(* then, whatever that gives, by the stop of the with block; the probe     *)
(* step leaves every container's status as it was.                         *)
C5_ProbeThenStop ==
    [][\A p \in Procs :
          /\ (pc[p] = "lib_probe" /\ pc'[p] # "lib_probe")
                => (pc'[p] = "lib_stop" /\ containers' = containers)
          /\ (pc[p] = "lib_stop" /\ pc'[p] # "lib_stop")
                => (lastOp'.op = "stop" /\ lastOp'.run = runId[p]
                    /\ lastOp'.cid = container[p])
          /\ (pc[p] = "test_probe" /\ pc'[p] # "test_probe")
                => (pc'[p] = "test_reload" /\ containers' = containers)
          /\ (pc[p] = "test_reload" /\ pc'[p] # "test_reload")
                => pc'[p] = "test_exit"
          /\ (pc[p] = "test_exit" /\ pc'[p] # "test_exit")
                => (lastOp'.op = "remove_force" /\ lastOp'.run = runId[p]
                    /\ lastOp'.cid = container[p])]_vars

\* The probe failed and the run has gone on to stop its container.
C5_Witness ==
    \E p \in Procs :
        /\ <<"lib", "probe", "error">> \in out[p]
        /\ lastOp.op = "stop" /\ lastOp.run = runId[p] /\ lastOp.before = "running"
        /\ lastOp.after = "exited"

(* C6: while lifecycle runs are in progress together, a run's stop or      *)
(* remove never acts on a container that another run, still in progress,   *)
(* created, and no run's creation fails on the name of such a container.   *)
C6_OwnContainerOnly ==
    \A p \in Caller, q \in Procs :
        (p # q /\ ~Idle(q))
            => /\ ~ /\ lastOp.op \in Teardown
                    /\ lastOp.after # lastOp.before
                    /\ containers[lastOp.cid].owner = runId[q]
               /\ ~ /\ lastOp.op = "run"
                    /\ lastOp.err = "NameConflict"
                    /\ \E c \in Ids : /\ containers[c].owner = runId[q]
                                      /\ Live(c)
                                      /\ containers[c].name = DemoName(lastOp.demo)

(* C7: a run whose creation failed with ImageNotFound reports that error,  *)
(* created no container, and no stop or remove of it acted on any          *)
(* container.                                                              *)
C7_ImageNotFound ==
    \A p \in Procs, d \in Demos :
        Outcome(p, d) = "ImageNotFound"
            => /\ failedAt[p][d] = "run"
               /\ Own(p, d) = {}
               /\ {i \in Acted(p) : i.demo = d} = {}
               /\ \A m \in out[p] : m[2] # "cleanup_error"

\* The management run failed with ImageNotFound and its cleanup has run.
C7_Witness ==
    \E p \in Procs :
        /\ Outcome(p, "mgmt") = "ImageNotFound"
        /\ Concluded(p, "mgmt")
        /\ cleanupErr[p] = "NotFound"

(* C8: the probe is issued only once the container was observed running,   *)
(* and a run that did not observe it running reports NotReady instead of   *)
(* going on.                                                               *)
C8_ReadyOrNotReady ==
    \A p \in Procs :
        /\ pc[p] = "lib_probe" => status[p] = "running"
        /\ pc[p] = "lib_stop"
              => (status[p] = "running" \/ <<"lib", "failed", "NotReady">> \in out[p])

(* C9: a stop or remove answered NotFound, the container being gone        *)
(* already, is taken as success: the run is not reported as failed by it.  *)
C9_IdempotentTeardown ==
    \A p \in Procs, d \in Demos :
        ~(failedAt[p][d] \in {"stop", "remove"} /\ Outcome(p, d) = "NotFound")

\* The last call was a success-path remove that no stop call preceded.
RemoveWithoutStop ==
    /\ lastOp.op = "remove"
    /\ \E p \in Caller :
          ~\E i \in issued[p] : i.op = "stop" /\ i.cid = lastOp.cid

\* The last call was made on a container that a remove of the same run had
\* removed.
OpAfterOwnRemove ==
    /\ lastOp.op # "none" /\ lastOp.before = "removed"
    /\ \E p \in Caller :
          \E i \in issued[p] :
              i.cid = lastOp.cid /\ i.op \in {"remove", "remove_force"} /\ i.changed

(* C10 as stated: no call of a run moves its container's status backward,  *)
(* a success-path remove follows a stop, and no call is made on a          *)
(* container that is removed.                                              *)
C10_Original ==
    /\ Rank(lastOp.after) >= Rank(lastOp.before)
    /\ ~RemoveWithoutStop
    /\ lastOp.before # "removed"

(* C10 as amended: no call of a run moves its container's status           *)
(* backward, a success-path remove follows a stop, and no call is made on  *)
(* a container after a remove of the same run removed it.                  *)
C10_ForwardOnly ==
    /\ Rank(lastOp.after) >= Rank(lastOp.before)
    /\ ~RemoveWithoutStop
    /\ ~OpAfterOwnRemove

\* A run stopped its running container and then removed it.
C10_Witness ==
    /\ lastOp.op = "remove" /\ lastOp.before = "exited" /\ lastOp.after = "removed"
    /\ \E p \in Caller :
          \E i \in issued[p] : i.op = "stop" /\ i.cid = lastOp.cid /\ i.changed

====
